---- MODULE Spec2Model ----
(***************************************************************************)
(* A model of steam_parser.py (class SteamParser): the similarity scorer,  *)
(* the name resolver, the field extractors, the detail fetcher and the     *)
(* batch loop with its checkpoints and its signal handler.                 *)
(*                                                                         *)
(* Python strings are TLA+ strings (Len, SubSeq and \o act on them).       *)
(* None is the string NoneVal.  A float score |A|/|B| is the exact         *)
(* fraction [n |-> |A|, d |-> |B|]: for word counts this small the float   *)
(* comparisons of the code agree with the exact ones (3/10 rounds to the   *)
(* same double as the literal 0.3).                                        *)
(*                                                                         *)
(* The output workbook is the sequence of its rows (table); an absent file *)
(* is the empty sequence.  pandas and the file system are taken to work:   *)
(* the "except Exception" branch of save_to_excel is not exercised.        *)
(***************************************************************************)
EXTENDS Integers, Sequences, FiniteSets, TLC

VARIABLES
    pc,               \* position of the main thread (see the actions)
    games,            \* games_list.txt as read_games_list returns it
    i,                \* 1-based index of the for loop of process_games
    existing_games,   \* self.existing_games
    current_results,  \* self.current_results (the buffer)
    results,          \* the local list results of process_games
    table,            \* rows of steam_games.xlsx
    interrupted,      \* self.interrupted
    detail_url,       \* the local detail_url of process_games
    table0,           \* history: the rows of the table when the run started
    log,              \* history: one entry per record assembled
    searched,         \* history: names passed to search_steam_game
    fetched,          \* history: names whose detail page was requested
    owed_delay,       \* history: a record was assembled and no delay ran since
    flushes,          \* history: one entry per save_to_excel that wrote rows
    failures,         \* number of names the site failed so far (bounded)
    q,                \* input of the pure-function specifications
    out               \* their output

vars == <<pc, games, i, existing_games, current_results, results, table,
          interrupted, detail_url, table0, log, searched, fetched, owed_delay,
          flushes, failures, q, out>>

-----------------------------------------------------------------------------
(* Bounds of the model *)

\* number of lines of games_list.txt
MaxGames == 12
\* number of names of one run for which the site fails (search or page)
MaxFailures == 2
\* length of the strings the similarity scorer is applied to
MaxLen == 3
\* number of anchors of one search response
MaxMatches == 3
\* number of words of a date text
MaxTokens == 3
\* number of rows of a language table
MaxRows == 3

-----------------------------------------------------------------------------
(* Python values and string methods *)

NoneVal == "<None>"

Ch(s, k) == SubSeq(s, k, k)

\* Characters outside ASCII are written with one ASCII symbol each.
\* Cyrillic small letters:
\*     a @   ve &   ghe }   de |   ie =   i !   short i [   ka <   el ^
\*     em #  en +   o *     pe %   er ?   es $   te -      u {    ef ;
\*     che '   yu _   ya ~
\* Cyrillic capital letters:   YA (   EF )   EM :   ES ]
\* HEAVY CHECK MARK:  >
CyrGhe == "}"
CheckMark == ">"
UpperLetters == "ABCDEFGHIJKLMNOPQRSTUVWXYZ" \o "():]"
LowerLetters == "abcdefghijklmnopqrstuvwxyz" \o "~;#$"
Digits == "0123456789"

IsIn(c, alphabet) == \E k \in 1..Len(alphabet) : Ch(alphabet, k) = c

\* str.isspace for one character
IsSpace(c) == c \in {" ", "\t", "\n"}

\* the lower-case letter of every upper-case letter
LowerOf ==
    [c \in {Ch(UpperLetters, k) : k \in 1..Len(UpperLetters)} |->
        Ch(LowerLetters, CHOOSE k \in 1..Len(UpperLetters) : Ch(UpperLetters, k) = c)]

LowerCh(c) == IF c \in DOMAIN LowerOf THEN LowerOf[c] ELSE c

RECURSIVE StrLower(_)
\* str.lower
StrLower(s) ==
    IF s = "" THEN "" ELSE LowerCh(Head(s)) \o StrLower(Tail(s))

RECURSIVE LStrip(_)
LStrip(s) ==
    IF s # "" /\ IsSpace(Head(s)) THEN LStrip(Tail(s)) ELSE s

RECURSIVE RStrip(_)
RStrip(s) ==
    IF s # "" /\ IsSpace(Ch(s, Len(s)))
    THEN RStrip(SubSeq(s, 1, Len(s) - 1))
    ELSE s

\* str.strip
Strip(s) == LStrip(RStrip(s))

\* sub in s
Contains(s, sub) ==
    \E k \in 1..(Len(s) - Len(sub) + 1) : SubSeq(s, k, k + Len(sub) - 1) = sub

StartsWith(s, sub) == Len(sub) <= Len(s) /\ SubSeq(s, 1, Len(sub)) = sub

RECURSIVE Replace(_, _, _)
\* str.replace(old, new), old non-empty: leftmost occurrences, left to right
Replace(s, old, new) ==
    IF s = "" THEN ""
    ELSE IF StartsWith(s, old)
         THEN new \o Replace(SubSeq(s, Len(old) + 1, Len(s)), old, new)
         ELSE Head(s) \o Replace(Tail(s), old, new)

RECURSIVE SplitWs(_, _)
\* str.split(): the words between runs of whitespace; cur is the word being read
SplitWs(s, cur) ==
    IF s = "" THEN (IF cur = "" THEN <<>> ELSE <<cur>>)
    ELSE IF IsSpace(Head(s))
         THEN (IF cur = "" THEN <<>> ELSE <<cur>>) \o SplitWs(Tail(s), "")
         ELSE SplitWs(Tail(s), cur \o Head(s))

Split(s) == SplitWs(s, "")

RECURSIVE SplitOn(_, _, _)
\* str.split(sep) for a one-character sep: always at least one segment
SplitOn(s, sep, cur) ==
    IF s = "" THEN <<cur>>
    ELSE IF Head(s) = sep
         THEN <<cur>> \o SplitOn(Tail(s), sep, "")
         ELSE SplitOn(Tail(s), sep, cur \o Head(s))

Range(f) == {f[k] : k \in DOMAIN f}

-----------------------------------------------------------------------------
(* Similarity scorer *)

Frac(n, d) == [n |-> n, d |-> d]
FracGt(x, y) == x.n * y.d > y.n * x.d
FracLt(x, y) == x.n * y.d < y.n * x.d
FracEq(x, y) == x.n * y.d = y.n * x.d

\* the literal 0.3 of search_steam_game
Threshold == Frac(3, 10)

\* the scorer dividing by the size of the search name's word set
CalculateSimilarity_Asym(search_name, match_name) ==
    LET search_words == Range(Split(StrLower(search_name)))
        match_words == Range(Split(StrLower(match_name)))
        intersection == search_words \cap match_words
    IN  IF search_words = {} THEN Frac(0, 1)
        ELSE Frac(Cardinality(intersection), Cardinality(search_words))

CalculateSimilarity(search_name, match_name) ==
    LET search_words == Range(Split(StrLower(search_name)))
        match_words == Range(Split(StrLower(match_name)))
        intersection == search_words \cap match_words
        union == search_words \cup match_words
    IN  IF union = {} THEN Frac(0, 1)
        ELSE Frac(Cardinality(intersection), Cardinality(union))
-----------------------------------------------------------------------------
(* Name resolver: search_steam_game *)

\* A search response: error is "none", "RequestException" (transport error or
\* HTTP error status) or "Exception"; anchors are the <a> elements of the
\* suggestion markup, each [cls, name, href] with name the text of its
\* div.match_name (NoneVal: no such div) and href its attribute (NoneVal: none).
Anchor(cls, name, href) == [cls |-> cls, name |-> name, href |-> href]
Response(error, anchors) == [error |-> error, anchors |-> anchors]

SoundtrackWords == <<"soundtrack", "ost", "demo">>
AppPath == "store.steampowered.com/app/"

\* soup.find_all('a', class_=...): the anchors of games, creators left out
GameMatches(anchors) ==
    SelectSeq(anchors, LAMBDA a : Contains(a.cls, "match_app")
                                  /\ ~Contains(a.cls, "match_creator"))

\* the test of one candidate without the soundtrack and demo markers
IsSoundtrack_None(match_name) == FALSE

\* any(word in match_name.lower() for word in [...])
IsSoundtrack(match_name) ==
    LET lowered == StrLower(match_name)
    IN  \E k \in DOMAIN SoundtrackWords : Contains(lowered, SoundtrackWords[k])

\* the acceptance test with >= in place of >
Accepts_Ge(best_score) == ~FracLt(best_score, Threshold)

\* best_score > 0.3
Accepts(best_score) == FracGt(best_score, Threshold)

\* the replacement test with >= in place of >: the last of equal scores wins
Better_Ge(similarity_score, best_score) == ~FracLt(similarity_score, best_score)

\* similarity_score > best_score
Better(similarity_score, best_score) == FracGt(similarity_score, best_score)

RECURSIVE BestMatch(_, _, _, _)
\* the for loop over game_matches from position k on; best is
\* [idx |-> position of best_match (0: None), score |-> best_score]
BestMatch(game_name, matches, k, best) ==
    IF k > Len(matches) THEN best
    ELSE IF matches[k].name = NoneVal
         THEN BestMatch(game_name, matches, k + 1, best)
         ELSE LET match_name == Strip(matches[k].name)
                  similarity_score == CalculateSimilarity(game_name, match_name)
                  is_soundtrack == IsSoundtrack(match_name)
                  is_bad_match == FracLt(similarity_score, Threshold)
                                  \/ is_soundtrack
              IN  IF Better(similarity_score, best.score) /\ ~is_bad_match
                  THEN BestMatch(game_name, matches, k + 1,
                                 [idx |-> k, score |-> similarity_score])
                  ELSE BestMatch(game_name, matches, k + 1, best)

\* the name the search is made with: GOTY expanded
SearchName(game_name) ==
    IF Contains(game_name, "GOTY")
    THEN Strip(Replace(game_name, "GOTY", "Game of the Year"))
    ELSE game_name

\* the loop's result for a response without error
SearchBest(game_name, response) ==
    BestMatch(SearchName(game_name), GameMatches(response.anchors), 1,
              [idx |-> 0, score |-> Frac(0, 1)])

\* search_steam_game: the detail URL, or NoneVal
SearchSteamGame(game_name, response) ==
    IF response.error # "none" THEN NoneVal
    ELSE LET game_matches == GameMatches(response.anchors)
             best == SearchBest(game_name, response)
         IN  IF game_matches = <<>> THEN NoneVal
             ELSE IF best.idx # 0 /\ Accepts(best.score)
                  THEN LET href == game_matches[best.idx].href
                       IN  IF href # NoneVal /\ href # ""
                              /\ Contains(href, AppPath)
                           THEN href
                           ELSE NoneVal
                  ELSE NoneVal
-----------------------------------------------------------------------------
(* Date normalizer: _format_date *)

\* month_map, in the order of the source; the Russian keys in the stand-ins
\* (yanv, fev, mar, apr, maya, iyun, iyul, av, sen, okt, noya, dek)
MonthMap ==
    << <<"Jan", "01">>, <<"Feb", "02">>, <<"Mar", "03">>, <<"Apr", "04">>,
       <<"May", "05">>, <<"Jun", "06">>, <<"Jul", "07">>, <<"Aug", "08">>,
       <<"Sep", "09">>, <<"Oct", "10">>, <<"Nov", "11">>, <<"Dec", "12">>,
       <<"~+&", "01">>, <<";=&", "02">>, <<"#@?", "03">>, <<"@%?", "04">>,
       <<"#@~", "05">>, <<"!_+", "06">>, <<"!_^", "07">>, <<"@&", "08">>,
       <<"$=+", "09">>, <<"*<-", "10">>, <<"+*~", "11">>, <<"|=<", "12">> >>

InMonthMap(m) == \E k \in DOMAIN MonthMap : MonthMap[k][1] = m
MonthNum(m) == MonthMap[CHOOSE k \in DOMAIN MonthMap : MonthMap[k][1] = m][2]

RECURSIVE RStripChar(_, _)
\* str.rstrip(c) for one character c
RStripChar(s, c) ==
    IF s # "" /\ Ch(s, Len(s)) = c
    THEN RStripChar(SubSeq(s, 1, Len(s) - 1), c)
    ELSE s

RECURSIVE OnlyDigits(_)
\* ''.join(filter(str.isdigit, s))
OnlyDigits(s) ==
    IF s = "" THEN ""
    ELSE (IF IsIn(Head(s), Digits) THEN Head(s) ELSE "") \o OnlyDigits(Tail(s))

RECURSIVE ZFill(_, _)
\* str.zfill(width) of a string of digits
ZFill(s, width) == IF Len(s) >= width THEN s ELSE ZFill("0" \o s, width)

\* date_string after line 536: commas, periods and the letter ghe removed
CleanDate(date_string) ==
    Strip(Replace(Replace(Replace(date_string, ",", ""), ".", ""), CyrGhe, ""))

\* the normaliser that writes the digits of the day as they are
FormatDate_NoPad(date_string0) ==
    LET date_string == CleanDate(date_string0)
        parts == Split(date_string)
        day == IF Len(parts) = 3 THEN parts[1] ELSE "01"
        month == IF Len(parts) = 3 THEN parts[2] ELSE parts[1]
        year == IF Len(parts) = 3 THEN parts[3] ELSE parts[2]
    IN  IF Len(parts) \notin {2, 3} THEN date_string
        ELSE IF ~InMonthMap(StrLower(month)) /\ ~InMonthMap(month) THEN date_string
        ELSE IF OnlyDigits(day) = "" \/ OnlyDigits(year) = "" THEN date_string
        ELSE OnlyDigits(day) \o "."
             \o (IF InMonthMap(StrLower(month)) THEN MonthNum(StrLower(month))
                 ELSE MonthNum(month))
             \o "." \o OnlyDigits(year)

FormatDate(date_string0) ==
    LET date_string == CleanDate(date_string0)
        parts == Split(date_string)
        day == IF Len(parts) = 3 THEN parts[1] ELSE "01"
        month == IF Len(parts) = 3 THEN parts[2] ELSE parts[1]
        year == IF Len(parts) = 3 THEN parts[3] ELSE parts[2]
        month_clean == RStrip(RStripChar(StrLower(month), "."))
        day_clean == OnlyDigits(day)
        year_clean == OnlyDigits(year)
    IN  IF Len(parts) \notin {2, 3} THEN date_string
        ELSE IF ~InMonthMap(month_clean) /\ ~InMonthMap(month) THEN date_string
        ELSE IF day_clean = "" \/ year_clean = "" THEN date_string
        ELSE LET month_num == IF InMonthMap(month_clean)
                              THEN MonthNum(month_clean)
                              ELSE MonthNum(month)
             IN  ZFill(day_clean, 2) \o "." \o month_num \o "." \o year_clean
-----------------------------------------------------------------------------
(* Field extractors *)

\* A detail page: error is "none", "RequestException" or "Exception" (the
\* request or the markup parser failed); el holds what the selectors of each
\* extractor find.  A selector's entry is the text or attribute it yields,
\* NoneVal when select_one finds no element, Raised when reading it raises
\* (a missing attribute, a malformed tree).
Raised == "<raised>"

FieldNames ==
    <<"price", "release_date", "dev", "metascore", "reviews_count",
      "reviews_tone", "russian_voiceover", "tags", "pegi", "played",
      "detail_url">>

Fields == Range(FieldNames)

RECURSIVE FirstText(_, _, _)
\* the loop "for selector in selectors": the first non-empty text, NoneVal
\* when the loop ends without one, Raised when a selector raises
FirstText(sels, k, strip) ==
    IF k > Len(sels) THEN NoneVal
    ELSE IF sels[k] = Raised THEN Raised
    ELSE IF sels[k] = NoneVal THEN FirstText(sels, k + 1, strip)
    ELSE LET text == IF strip THEN Strip(sels[k]) ELSE sels[k]
         IN  IF text # "" THEN text ELSE FirstText(sels, k + 1, strip)

\* try: body  except Exception: return marker
TryExcept(body, marker) == IF body = Raised THEN marker ELSE body

\* the text found, or the extractor's default
FoundOr(text, default) == IF text = NoneVal THEN default ELSE text

ExtractPrice(el) ==
    TryExcept(
        LET text == FirstText(el.price, 1, TRUE)
        IN  IF text # NoneVal THEN text
            ELSE IF el.free_to_play = Raised THEN Raised
            ELSE IF el.free_to_play = "yes" THEN "Free to Play"
            ELSE "not found",
        "Error extracting price")

ExtractReleaseDate(el) ==
    TryExcept(
        LET text == FirstText(el.release_date, 1, TRUE)
        IN  IF text = Raised THEN Raised
            ELSE IF text # NoneVal THEN FormatDate(text)
            ELSE "not found",
        "Error extracting release date")

ExtractDev(el) ==
    TryExcept(FoundOr(FirstText(el.dev, 1, TRUE), "DEV not found"),
              "Error extracting release date")

ExtractMetascore(el) ==
    TryExcept(FoundOr(FirstText(el.metascore, 1, TRUE), "not found"),
              "Error extracting Metascore")

ExtractReviewsCount(el) ==
    TryExcept(FoundOr(FirstText(el.reviews_count, 1, FALSE), "not found"),
              "Error extracting Reviews count")

ExtractReviewsTone(el) ==
    TryExcept(FoundOr(FirstText(el.reviews_tone, 1, FALSE), "not found"),
              "Error extracting Reviews rating")

RECURSIVE Join(_, _)
\* sep.join(strs)
Join(strs, sep) ==
    IF strs = <<>> THEN ""
    ELSE IF Len(strs) = 1 THEN strs[1]
    ELSE strs[1] \o sep \o Join(Tail(strs), sep)

RECURSIVE StripAll(_)
StripAll(strs) ==
    IF strs = <<>> THEN <<>> ELSE <<Strip(Head(strs))>> \o StripAll(Tail(strs))

\* el.tags is [container |-> "absent" | "present" | Raised, links |-> texts]
ExtractTags(el) ==
    TryExcept(
        IF el.tags.container = Raised THEN Raised
        ELSE IF el.tags.container = "absent" THEN "not found"
        ELSE LET tags == SelectSeq(StripAll(el.tags.links), LAMBDA t : t # "")
             IN  IF tags # <<>> THEN Join(tags, ", ") ELSE "not found",
        "Error extracting Tags")

\* the int 0 of the source is written "0"
ExtractPlayedHours(el) ==
    TryExcept(
        LET text == FirstText(el.played, 1, FALSE)
            segs == SplitOn(text, "/", "")
            kept == IF Len(segs) >= 2 THEN segs[2] ELSE text
        IN  IF text = Raised THEN Raised
            ELSE IF text = NoneVal THEN "0"
            ELSE Strip(Replace(Replace(kept, "'. &$=}*", ""),
                               "hrs on record", "")),
        "Error extracting Played")

ExtractPegi(el) ==
    TryExcept(FoundOr(FirstText(el.pegi, 1, FALSE), "not found"),
              "Error extracting Pegi")

\* the values of _extract_russian_voiceover, transliterated
VoiceNotFound == "Ne najdeno"
VoiceNo == "Net"
VoiceYes == "Da"
VoiceError == "Oshibka izvlecheniya"
\* "russkij" in the stand-ins
RussianWord == "?{$$<!["

\* el.lang is [table |-> "absent" | "present" | Raised, rows |-> the <tr> of
\* the table], a row [cell |-> text of its td.ellipsis (NoneVal: none),
\* checks |-> for each td.checkcol the text of its first span (NoneVal: none)]
IsRussianRow(row) ==
    row.cell # NoneVal /\ Contains(StrLower(Strip(row.cell)), RussianWord)

\* the extractor that reads the first check column (the interface) where the
\* source reads the second
ExtractRussianVoiceover_Interface(el) ==
    TryExcept(
        IF el.lang.table = Raised THEN Raised
        ELSE IF el.lang.table = "absent" THEN VoiceNotFound
        ELSE LET rows == el.lang.rows
                 hits == {k \in 2..Len(rows) : IsRussianRow(rows[k])}
             IN  IF Len(rows) < 2 THEN VoiceNotFound
                 ELSE IF hits = {} THEN VoiceNo
                 ELSE LET check_columns ==
                              rows[CHOOSE k \in hits : \A j \in hits : k <= j].checks
                      IN  IF Len(check_columns) < 3 THEN VoiceNotFound
                          ELSE IF check_columns[1] # NoneVal
                                  /\ Contains(check_columns[1], CheckMark)
                               THEN VoiceYes
                               ELSE VoiceNo,
        VoiceError)

ExtractRussianVoiceover(el) ==
    TryExcept(
        IF el.lang.table = Raised THEN Raised
        ELSE IF el.lang.table = "absent" THEN VoiceNotFound
        ELSE LET rows == el.lang.rows
                 hits == {k \in 2..Len(rows) : IsRussianRow(rows[k])}
             IN  IF Len(rows) < 2 THEN VoiceNotFound
                 ELSE IF hits = {} THEN VoiceNo
                 ELSE LET russian_row ==
                              rows[CHOOSE k \in hits : \A j \in hits : k <= j]
                          check_columns == russian_row.checks
                      IN  IF Len(check_columns) < 3 THEN VoiceNotFound
                          ELSE IF check_columns[2] # NoneVal
                                  /\ Contains(check_columns[2], CheckMark)
                               THEN VoiceYes
                               ELSE VoiceNo,
        VoiceError)

\* self.fields_to_extract[field_name] applied as parse_game_details applies it
Extractor(field_name, el, url) ==
    CASE field_name = "price" -> ExtractPrice(el)
      [] field_name = "release_date" -> ExtractReleaseDate(el)
      [] field_name = "dev" -> ExtractDev(el)
      [] field_name = "metascore" -> ExtractMetascore(el)
      [] field_name = "reviews_count" -> ExtractReviewsCount(el)
      [] field_name = "reviews_tone" -> ExtractReviewsTone(el)
      [] field_name = "russian_voiceover" -> ExtractRussianVoiceover(el)
      [] field_name = "tags" -> ExtractTags(el)
      [] field_name = "pegi" -> ExtractPegi(el)
      [] field_name = "played" -> ExtractPlayedHours(el)
      [] field_name = "detail_url" -> url

-----------------------------------------------------------------------------
(* Detail fetcher: parse_game_details *)

\* game_data when the fetch failed
NoData == [f \in {} |-> ""]

\* the fetcher with one try around the whole loop: the first extractor that
\* reports an error loses the page
ParseGameDetails_Abort(page, url) ==
    IF page.error # "none" THEN NoData
    ELSE IF \E f \in Fields \ {"detail_url"} :
                StartsWith(Extractor(f, page.el, url), "Error extracting")
                \/ Extractor(f, page.el, url) = VoiceError
         THEN NoData
         ELSE [f \in Fields |-> Extractor(f, page.el, url)]

\* parse_game_details: the dict game_data, or NoData for None
ParseGameDetails(page, url) ==
    IF page.error # "none" THEN NoData
    ELSE [f \in Fields |->
            IF Extractor(f, page.el, url) = Raised
            THEN "Error extracting " \o f
            ELSE Extractor(f, page.el, url)]
-----------------------------------------------------------------------------
(* The site: what the store answers for the k-th line of games_list.txt *)

\* the k-th name of the list
GameName(k) == "game " \o Ch(LowerLetters, k)

AppUrl(k) == "https://store.steampowered.com/app/" \o Ch(LowerLetters, k) \o "/"

\* the anchor of the game itself
OwnAnchor(k) == Anchor("match ds_collapse_flag match_app", GameName(k), AppUrl(k))

\* a response that resolves the name: the game's anchor, after a creator, a
\* soundtrack or a sequel of the same series, depending on k
GoodResponse(k) ==
    Response("none",
        CASE k % 4 = 0 -> <<OwnAnchor(k)>>
          [] k % 4 = 1 -> <<Anchor("match match_creator", GameName(k),
                                   "https://store.steampowered.com/developer/x"),
                            OwnAnchor(k)>>
          [] k % 4 = 2 -> <<Anchor("match match_app",
                                   GameName(k) \o " Soundtrack",
                                   "https://store.steampowered.com/app/ost/"),
                            OwnAnchor(k)>>
          [] k % 4 = 3 -> <<Anchor("match match_app", GameName(k) \o " 2 ",
                                   "https://store.steampowered.com/app/two/"),
                            OwnAnchor(k)>>)

\* a response that does not resolve it
BadResponse(k) ==
    CASE k % 6 = 0 -> Response("RequestException", <<>>)
      [] k % 6 = 1 -> Response("none", <<>>)
      [] k % 6 = 2 -> Response("Exception", <<>>)
      [] k % 6 = 3 -> Response("none",
                         <<Anchor("match match_app", GameName(k) \o " Demo",
                                  AppUrl(k))>>)
      [] k % 6 = 4 -> Response("none",
                         <<Anchor("match match_app", "game and four more words",
                                  AppUrl(k))>>)
      [] k % 6 = 5 -> Response("none",
                         <<Anchor("match match_app", GameName(k),
                                  "https://store.steampowered.com/bundle/7/")>>)

\* the elements of the detail page of the k-th game: every selector finds a
\* text, but the selectors of field number k % 12 find nothing and reading
\* field number (k + 5) % 12 raises (0 and 11: no field)
FullPage ==
    [price |-> <<NoneVal, " 10 USD ", "12 USD">>,
     free_to_play |-> "no",
     release_date |-> <<"16 Feb, 2012", NoneVal, NoneVal, NoneVal>>,
     dev |-> <<"Valve">>,
     metascore |-> <<"96">>,
     reviews_count |-> <<"1500">>,
     reviews_tone |-> <<"9">>,
     lang |-> [table |-> "present",
               rows |-> <<[cell |-> NoneVal, checks |-> <<>>],
                          [cell |-> "English", checks |-> <<">", ">", ">">>],
                          [cell |-> " ?{$$<![ ", checks |-> <<">", NoneVal, ">">>]>>],
     tags |-> [container |-> "present", links |-> <<"FPS ", "", "Action">>],
     pegi |-> <<"16">>,
     played |-> <<"2 hrs / 31 hrs on record">>]

Blank(field_name, el) ==
    CASE field_name = "price" -> [el EXCEPT !.price = <<NoneVal, "", NoneVal>>]
      [] field_name = "release_date" ->
             [el EXCEPT !.release_date = <<NoneVal, NoneVal, NoneVal, NoneVal>>]
      [] field_name = "russian_voiceover" ->
             [el EXCEPT !.lang = [table |-> "absent", rows |-> <<>>]]
      [] field_name = "tags" ->
             [el EXCEPT !.tags = [container |-> "absent", links |-> <<>>]]
      [] field_name = "played" -> [el EXCEPT !.played = <<NoneVal>>]
      [] field_name \in {"dev", "metascore", "reviews_count", "reviews_tone",
                         "pegi"} -> [el EXCEPT ![field_name] = <<NoneVal>>]
      [] OTHER -> el

Broken(field_name, el) ==
    CASE field_name = "price" ->
             [el EXCEPT !.price = <<NoneVal, NoneVal, NoneVal>>,
                        !.free_to_play = Raised]
      [] field_name = "release_date" ->
             [el EXCEPT !.release_date = <<NoneVal, Raised, NoneVal, NoneVal>>]
      [] field_name = "russian_voiceover" ->
             [el EXCEPT !.lang = [table |-> Raised, rows |-> <<>>]]
      [] field_name = "tags" ->
             [el EXCEPT !.tags = [container |-> Raised, links |-> <<>>]]
      [] field_name \in {"dev", "metascore", "reviews_count", "reviews_tone",
                         "pegi", "played"} -> [el EXCEPT ![field_name] = <<Raised>>]
      [] OTHER -> el

\* the field of a number, "" for a number that is not a field's
FieldAt(n) == IF n \in 1..10 THEN FieldNames[n] ELSE ""

BlankField(k) == FieldAt(k % 12)
BrokenField(k) == FieldAt((k + 5) % 12)

Page(error, el) == [error |-> error, el |-> el]

GoodPage(k) == Page("none", Broken(BrokenField(k), Blank(BlankField(k), FullPage)))

BadPage(k) ==
    Page(IF k % 2 = 0 THEN "RequestException" ELSE "Exception", FullPage)

\* the names of the model, and the number of a name
Names == [k \in 1..MaxGames |-> GameName(k)]
NameId(game_name) == CHOOSE k \in DOMAIN Names : Names[k] = game_name

SiteResponse(k, good) == IF good THEN GoodResponse(k) ELSE BadResponse(k)
SitePage(k, good) == IF good THEN GoodPage(k) ELSE BadPage(k)

\* search_steam_game and parse_game_details on the answers of the site,
\* evaluated once for every name
SearchResults ==
    [k \in DOMAIN Names |->
        [good \in BOOLEAN |-> SearchSteamGame(Names[k], SiteResponse(k, good))]]

ParseResults ==
    [k \in DOMAIN Names |->
        [good \in BOOLEAN |->
            ParseGameDetails(SitePage(k, good), SearchResults[k][TRUE])]]

SearchOf(game_name, good) == SearchResults[NameId(game_name)][good]

ParseOf(game_name, good, url) ==
    IF url = SearchResults[NameId(game_name)][TRUE]
    THEN ParseResults[NameId(game_name)][good]
    ELSE ParseGameDetails(SitePage(NameId(game_name), good), url)
-----------------------------------------------------------------------------
(* Batch orchestrator: process_games, save_to_excel, run, _signal_handler *)

\* the period of the checkpoints
CheckpointEvery == 10

RecordKeys == {"game_name", "status"} \cup Fields

SearchFailedRecord(game_name) ==
    [key \in RecordKeys |->
        CASE key = "game_name" -> game_name
          [] key = "status" -> "Search failed"
          [] key = "detail_url" -> "Not found"
          [] OTHER -> "nf"]

SuccessRecord(game_name, game_data) ==
    [key \in RecordKeys |->
        CASE key = "game_name" -> game_name
          [] key = "status" -> "Success"
          [] OTHER -> IF key \in DOMAIN game_data THEN game_data[key]
                      ELSE "Not found"]

\* the record of a failed page with the placeholder of a failed search
ParseFailedRecord_NoUrl(game_name, url) ==
    [key \in RecordKeys |->
        CASE key = "game_name" -> game_name
          [] key = "status" -> "Parse failed"
          [] key = "detail_url" -> "Not found"
          [] OTHER -> ""]

ParseFailedRecord(game_name, url) ==
    [key \in RecordKeys |->
        CASE key = "game_name" -> game_name
          [] key = "status" -> "Parse failed"
          [] key = "detail_url" -> url
          [] OTHER -> ""]

\* a save that writes the new rows alone, without the rows read back
SaveToExcel_Overwrite(tbl, data) == IF data = <<>> THEN tbl ELSE data

\* the table after save_to_excel(data): nothing is written for empty data,
\* else the rows read back are written again with the new rows after them
SaveToExcel(tbl, data) == IF data = <<>> THEN tbl ELSE tbl \o data

\* load_existing_games: the names of the rows, as strings, stripped
ExistingNames(tbl) == {Strip(tbl[k].game_name) : k \in DOMAIN tbl}

\* the loop without the test of existing_games
IsExisting_Never(game_name, existing) == FALSE

\* "if game_name in self.existing_games"
IsExisting(game_name, existing) == game_name \in existing

\* "if len(self.current_results) % 10 == 0"
CheckpointDue(buffer) == Len(buffer) % CheckpointEvery = 0

\* what run() hands to its final save_to_excel
FinalData(all_results, buffer) == all_results

Flush(by, data) == [by |-> by, rows |-> data]

\* the tables a run may find: none, or rows of earlier runs
InitTables ==
    { <<>>,
      <<SearchFailedRecord(GameName(2))>>,
      <<ParseFailedRecord(" " \o GameName(1) \o " ", AppUrl(1)),
        SearchFailedRecord("game zz"),
        SearchFailedRecord(GameName(CheckpointEvery))>> }

\* the lists a run may read: empty, distinct names, or the first name again
\* on the last line
GamesLists ==
    { <<>>,
      Names,
      [k \in 1..MaxGames |-> IF k = MaxGames THEN Names[1] ELSE Names[k]] }

PureIdle == q = <<>> /\ out = <<>>

Init ==
    /\ pc = "start"
    /\ games \in GamesLists
    /\ table \in InitTables
    /\ table0 = table
    /\ i = 1
    /\ existing_games = {}
    /\ current_results = <<>>
    /\ results = <<>>
    /\ interrupted = FALSE
    /\ detail_url = NoneVal
    /\ log = <<>>
    /\ searched = {}
    /\ fetched = {}
    /\ owed_delay = FALSE
    /\ flushes = <<>>
    /\ failures = 0
    /\ PureIdle

\* run(), lines 746-753: load the names of the table, read the list
Load ==
    /\ pc = "start"
    /\ existing_games' = ExistingNames(table)
    /\ pc' = IF games = <<>> THEN "done" ELSE "loop"
    /\ UNCHANGED <<games, i, current_results, results, table, interrupted,
                   detail_url, table0, log, searched, fetched, owed_delay,
                   flushes, failures, q, out>>

\* process_games, lines 661-671: the head of one iteration
LoopHead ==
    /\ pc = "loop"
    /\ IF i > Len(games) \/ interrupted
       THEN pc' = "final" /\ i' = i
       ELSE IF IsExisting(games[i], existing_games)
            THEN pc' = "loop" /\ i' = i + 1
            ELSE pc' = "search" /\ i' = i
    /\ UNCHANGED <<games, existing_games, current_results, results, table,
                   interrupted, detail_url, table0, log, searched, fetched,
                   owed_delay, flushes, failures, q, out>>

\* process_games, lines 674-682: the search, and the record of a failed one
SearchGame ==
    /\ pc = "search"
    /\ \E good \in BOOLEAN :
        LET response == SiteResponse(NameId(games[i]), good)
            url == SearchOf(games[i], good)
            result == SearchFailedRecord(games[i])
        IN  /\ url = NoneVal => failures < MaxFailures
            /\ searched' = searched \cup {games[i]}
            /\ detail_url' = url
            /\ IF url = NoneVal
               THEN /\ results' = Append(results, result)
                    /\ current_results' = Append(current_results, result)
                    /\ log' = Append(log, [i |-> i, url |-> url,
                                           search_error |-> response.error,
                                           page_error |-> "not fetched"])
                    /\ owed_delay' = TRUE
                    /\ failures' = failures + 1
                    /\ i' = i + 1
                    /\ pc' = "loop"
               ELSE /\ pc' = "parse"
                    /\ UNCHANGED <<results, current_results, log, owed_delay,
                                   failures, i>>
    /\ UNCHANGED <<games, existing_games, table, interrupted, table0, fetched,
                   flushes, q, out>>

\* process_games, lines 685-702: the detail page and its record
ParseGame ==
    /\ pc = "parse"
    /\ \E good \in BOOLEAN :
        LET page == SitePage(NameId(games[i]), good)
            game_data == ParseOf(games[i], good, detail_url)
            result == IF game_data # NoData
                      THEN SuccessRecord(games[i], game_data)
                      ELSE ParseFailedRecord(games[i], detail_url)
        IN  /\ game_data = NoData => failures < MaxFailures
            /\ failures' = IF game_data = NoData THEN failures + 1 ELSE failures
            /\ results' = Append(results, result)
            /\ current_results' = Append(current_results, result)
            /\ log' = Append(log, [i |-> i, url |-> detail_url,
                                   search_error |-> "none",
                                   page_error |-> page.error])
    /\ fetched' = fetched \cup {games[i]}
    /\ owed_delay' = TRUE
    /\ pc' = "checkpoint"
    /\ UNCHANGED <<games, i, existing_games, table, interrupted, detail_url,
                   table0, searched, flushes, q, out>>

\* process_games, lines 705-707: the periodic save
Checkpoint ==
    /\ pc = "checkpoint"
    /\ IF CheckpointDue(current_results)
       THEN /\ table' = SaveToExcel(table, current_results)
            /\ flushes' = Append(flushes, Flush("checkpoint", current_results))
            /\ pc' = "clear"
       ELSE /\ pc' = "sleep"
            /\ UNCHANGED <<table, flushes>>
    /\ UNCHANGED <<games, i, existing_games, current_results, results,
                   interrupted, detail_url, table0, log, searched, fetched,
                   owed_delay, failures, q, out>>

\* process_games, line 709
ClearBuffer ==
    /\ pc = "clear"
    /\ current_results' = <<>>
    /\ pc' = "sleep"
    /\ UNCHANGED <<games, i, existing_games, results, table, interrupted,
                   detail_url, table0, log, searched, fetched, owed_delay,
                   flushes, failures, q, out>>

\* process_games, line 712, and the step to the next name
Sleep ==
    /\ pc = "sleep"
    /\ owed_delay' = FALSE
    /\ i' = i + 1
    /\ pc' = "loop"
    /\ UNCHANGED <<games, existing_games, current_results, results, table,
                   interrupted, detail_url, table0, log, searched, fetched,
                   flushes, failures, q, out>>

\* run(), lines 759-763: the save after process_games returned
FinalSave ==
    /\ pc = "final"
    /\ LET data == FinalData(results, current_results)
       IN  /\ table' = SaveToExcel(table, data)
           /\ flushes' = IF data # <<>>
                         THEN Append(flushes, Flush("final", data))
                         ELSE flushes
    /\ pc' = "done"
    /\ UNCHANGED <<games, i, existing_games, current_results, results,
                   interrupted, detail_url, table0, log, searched, fetched,
                   owed_delay, failures, q, out>>

\* where the main thread is after the handler ran: sys.exit(0)
AfterHandler(at) == "exited"

\* a handler that sets the flag and exits without saving
HandlerData_Nothing(buffer) == <<>>

\* what the handler saves
HandlerData(buffer) == buffer

\* _signal_handler: SIGINT or SIGTERM, delivered while the process lives
\* ("done": run() has returned and the script waits in input())
Signal ==
    /\ pc \in {"start", "loop", "search", "parse", "checkpoint", "clear",
               "sleep", "final", "done"}
    /\ interrupted' = TRUE
    /\ LET data == HandlerData(current_results)
       IN  /\ table' = SaveToExcel(table, data)
           /\ flushes' = IF data # <<>>
                         THEN Append(flushes, Flush("signal", data))
                         ELSE flushes
    /\ pc' = AfterHandler(pc)
    /\ UNCHANGED <<games, i, existing_games, current_results, results,
                   detail_url, table0, log, searched, fetched, owed_delay,
                   failures, q, out>>

Next ==
    \/ Load
    \/ LoopHead
    \/ SearchGame
    \/ ParseGame
    \/ Checkpoint
    \/ ClearBuffer
    \/ Sleep
    \/ FinalSave
    \/ Signal

Spec == Init /\ [][Next]_vars
\* the steps of the main thread
MainStep ==
    \/ Load
    \/ LoopHead
    \/ SearchGame
    \/ ParseGame
    \/ Checkpoint
    \/ ClearBuffer
    \/ Sleep
    \/ FinalSave

-----------------------------------------------------------------------------
(* Properties of the batch run *)

Distinct(seq) == \A j, k \in DOMAIN seq : j # k => seq[j] # seq[k]

\* the rows the run added to the table
AddedRows == SubSeq(table, Len(table0) + 1, Len(table))

\* the positions of the list whose name is not in existing_games
ToProcess == {k \in DOMAIN games : games[k] \notin existing_games}

\* the positions whose record has been assembled
Recorded ==
    {k \in ToProcess :
        k < i \/ (k = i /\ pc \in {"checkpoint", "clear", "sleep"})}

\* C1: an uninterrupted run over N distinct names and no table, in which the
\* site fails for no name, has written exactly N rows when run() returns, no
\* row twice; its checkpoints wrote the records 1..10, 11..20, ... and the
\* final save wrote only the records no checkpoint had written.
C1_ExactlyNRowsOnce ==
    (pc = "done" /\ ~interrupted /\ table0 = <<>> /\ Distinct(games)
     /\ failures = 0)
    => /\ Len(table) = Len(games)
       /\ Distinct(table)
       /\ \A n \in DOMAIN results :
             n % CheckpointEvery = 0 =>
                 \E f \in DOMAIN flushes :
                     /\ flushes[f].by = "checkpoint"
                     /\ flushes[f].rows = SubSeq(results, n - CheckpointEvery + 1, n)
       /\ \A f \in DOMAIN flushes :
             flushes[f].by = "final" =>
                 flushes[f].rows =
                     SubSeq(results,
                            Len(results) - (Len(results) % CheckpointEvery) + 1,
                            Len(results))

\* C2: a name of the table the run started with is never searched, never
\* fetched, gets no record in the buffer or the results, and no row is added
\* to the table for it.
C2_ExistingNeverReprocessed ==
    LET known == ExistingNames(table0)
    IN  /\ pc \notin {"start", "exited"} => existing_games = known
        /\ searched \cap known = {}
        /\ fetched \cap known = {}
        /\ \A k \in DOMAIN results : results[k].game_name \notin known
        /\ \A k \in DOMAIN current_results :
               current_results[k].game_name \notin known
        /\ \A k \in DOMAIN AddedRows : AddedRows[k].game_name \notin known

\* a run that ended, skipped a name of the table and added rows for others
C2_Witness ==
    /\ pc = "done"
    /\ \E k \in DOMAIN games : games[k] \in existing_games
    /\ Len(table) > Len(table0)
    /\ searched # {}

IsErrorMarker(value) ==
    StartsWith(value, "Error extracting") \/ value = VoiceError

\* the values of the fields of the page of name number k with no element
\* raising, evaluated once for every name
UnbrokenValues ==
    [k \in DOMAIN Names |->
        [f \in Fields |->
            Extractor(f, Blank(BlankField(k), FullPage), SearchResults[k][TRUE])]]

\* a record with game_name, status and one entry for each declared field
HasSchema(r) ==
    /\ DOMAIN r = RecordKeys
    /\ r.status \in {"Success", "Search failed", "Parse failed"}
    /\ \A f \in Fields : r[f] # Raised /\ r[f] # NoneVal

\* a Success record of name number k in which the field whose extractor
\* failed holds an error marker and every other field holds what its
\* extractor yields on the page without the failure
KeepsOtherFields(r, k) ==
    /\ r.status = "Success"
    /\ \A f \in Fields :
          IF f = BrokenField(k)
          THEN IsErrorMarker(r[f])
          ELSE r[f] = UnbrokenValues[k][f]

\* the records process_games can assemble for the names of the model
Assembled ==
    UNION {{SearchFailedRecord(Names[k]),
            ParseFailedRecord(Names[k], SearchResults[k][TRUE]),
            IF ParseResults[k][TRUE] # NoData
            THEN SuccessRecord(Names[k], ParseResults[k][TRUE])
            ELSE ParseFailedRecord(Names[k], SearchResults[k][TRUE])}
           : k \in DOMAIN Names}

\* those of them that have the schema, and those that also keep the fields
\* of the fetched page
WithSchema == {r \in Assembled : HasSchema(r)}
FromPage == {r \in WithSchema : KeepsOtherFields(r, NameId(r.game_name))}

\* C3: every record has game_name, status and one entry for each declared
\* field, on each of the three paths; when the page was fetched the record is
\* a Success record in which the field whose extractor failed holds an error
\* marker and every other field holds what its extractor yields on the page
\* without the failure.
C3_FixedSchema ==
    /\ Len(log) = Len(results)
    /\ \A n \in DOMAIN results :
          /\ results[n] \in WithSchema
          /\ log[n].page_error = "none" => results[n] \in FromPage
    /\ \A n \in DOMAIN current_results : current_results[n] \in WithSchema
    /\ \A n \in DOMAIN AddedRows : AddedRows[n] \in WithSchema

\* records of the three statuses, one of them a Success record with a failed
\* extractor and one with an absent element
C3_Witness ==
    /\ \E n \in DOMAIN results : results[n].status = "Search failed"
    /\ \E n \in DOMAIN results : results[n].status = "Parse failed"
    /\ \E n \in DOMAIN results :
          /\ results[n].status = "Success"
          /\ \E f \in Fields : IsErrorMarker(results[n][f])
          /\ \E f \in Fields : results[n][f] \in {"not found", "DEV not found"}

\* C4: the step on which a signal is handled appends the whole buffer to the
\* table and ends the process, and once a signal was handled no name is
\* searched or fetched.
C4_SignalFlushesAndStops ==
    [][ /\ (~interrupted /\ interrupted') =>
              /\ table' = table \o current_results
              /\ pc' = "exited"
        /\ interrupted =>
              /\ searched' = searched
              /\ fetched' = fetched
              /\ table' = table ]_vars

\* a signal handled while the buffer held records
C4_Witness ==
    /\ pc = "exited"
    /\ interrupted
    /\ current_results # <<>>
    /\ flushes # <<>>
    /\ flushes[Len(flushes)] = Flush("signal", current_results)
    /\ i <= Len(games)

\* C5: between two names fewer than ten assembled records wait in the buffer
C5_BufferBelowTen ==
    pc = "loop" => Len(current_results) <= CheckpointEvery - 1

\* C6: no search is issued while the delay after an assembled record is owed
C6_DelayBeforeSearch ==
    pc = "search" => ~owed_delay

\* C7: the records follow the list: the positions of the list that are not
\* skipped have one record each, in the order of the list; the status of a
\* record is Search failed exactly when the search
\* gave no URL (a transport error included), Parse failed exactly when it
\* gave one and the page could not be fetched (the record then holds that
\* URL), Success otherwise; the main thread always has a next step until
\* run() returns, and then every position to process has its record.
C7_OneRecordPerName ==
    /\ Len(log) = Len(results)
    /\ \A n \in DOMAIN results :
        LET r == results[n]
            e == log[n]
        IN  /\ n > 1 => log[n - 1].i < e.i
            /\ r.game_name = games[e.i]
            /\ r.status = "Search failed" <=> e.url = NoneVal
            /\ e.search_error # "none" => r.status = "Search failed"
            /\ r.status = "Parse failed" <=>
                   (e.url # NoneVal /\ e.page_error # "none")
            /\ r.status = "Parse failed" => r.detail_url = e.url
            /\ r.status = "Success" <=>
                   (e.url # NoneVal /\ e.page_error = "none")
    /\ pc \notin {"start", "exited"} =>
           {log[n].i : n \in DOMAIN log} = Recorded
    /\ pc \in {"final", "done"} => Recorded = ToProcess
    /\ pc \notin {"done", "exited"} => ENABLED MainStep

\* a run that ended with a Success record after a search that raised a
\* transport error and after a page that could not be fetched
C7_Witness ==
    /\ pc = "done"
    /\ \E a, b, c \in DOMAIN results :
          /\ a < c /\ b < c
          /\ log[a].search_error = "RequestException"
          /\ results[a].status = "Search failed"
          /\ results[b].status = "Parse failed"
          /\ results[c].status = "Success"
\* the rows written by the flushes before flush number f
WrittenBefore(f) == UNION {Range(flushes[g].rows) : g \in 1..(f - 1)}

\* C13: in a run over distinct names, the rows the signal handler writes are
\* rows that no earlier flush of the run (checkpoint or final save) wrote.
C13_SignalNeverRewrites ==
    Distinct(games) =>
        \A f \in DOMAIN flushes :
            flushes[f].by = "signal" =>
                Range(flushes[f].rows) \cap WrittenBefore(f) = {}

\* C14: in a run over distinct names that a signal ended, the name whose
\* search had returned when the signal came has its record, and the record
\* is in the table.
C14_NameRunsToCompletion ==
    (pc = "exited" /\ Distinct(games) /\ i \in DOMAIN games
     /\ games[i] \in searched)
    => \E n \in DOMAIN results :
          /\ log[n].i = i
          /\ \E k \in DOMAIN AddedRows : AddedRows[k] = results[n]

\* C17: every step keeps the rows of the table, unchanged and in their
\* order, as a prefix of the table after it; a step that saves a non-empty
\* buffer (checkpoint, final save or signal handler) puts exactly the rows of
\* the buffer after them, and every other step, a save of an empty buffer
\* included, leaves the table as it is.
C17_AppendOnly ==
    [][ /\ Len(table') >= Len(table)
        /\ SubSeq(table', 1, Len(table)) = table
        /\ IF flushes' # flushes
           THEN /\ Len(flushes') = Len(flushes) + 1
                /\ SubSeq(flushes', 1, Len(flushes)) = flushes
                /\ flushes'[Len(flushes')].rows # <<>>
                /\ table' = table \o flushes'[Len(flushes')].rows
           ELSE table' = table ]_vars

\* a table of an earlier run, a checkpoint, and then the signal handler's
\* save: the old rows first, the rows of the two saves after them
C17_Witness ==
    /\ pc = "exited"
    /\ table0 # <<>>
    /\ Len(flushes) = 2
    /\ flushes[1].by = "checkpoint"
    /\ flushes[2].by = "signal"
    /\ table = table0 \o flushes[1].rows \o flushes[2].rows

-----------------------------------------------------------------------------
(* The pure functions, applied to bounded inputs *)

\* the variables of the batch run, at rest
RunIdle ==
    /\ games = <<>>
    /\ table = <<>>
    /\ table0 = <<>>
    /\ i = 1
    /\ existing_games = {}
    /\ current_results = <<>>
    /\ results = <<>>
    /\ interrupted = FALSE
    /\ detail_url = NoneVal
    /\ log = <<>>
    /\ searched = {}
    /\ fetched = {}
    /\ owed_delay = FALSE
    /\ flushes = <<>>
    /\ failures = 0

RECURSIVE SeqsUpTo(_, _)
\* the sequences of at most n elements of S
SeqsUpTo(S, n) ==
    IF n = 0 THEN {<<>>}
    ELSE LET shorter == SeqsUpTo(S, n - 1)
         IN  shorter \cup {Append(t, x) : t \in shorter, x \in S}

RECURSIVE StringsUpTo(_, _)
\* the strings of at most n characters of S
StringsUpTo(S, n) ==
    IF n = 0 THEN {""}
    ELSE LET shorter == StringsUpTo(S, n - 1)
         IN  shorter \cup {t \o c : t \in shorter, c \in S}

\* search_steam_game: the names searched and the anchors a response may hold
Queries == {"Portal 2", "Portal Soundtrack", "a b c d e", "Portal GOTY"}

AnchorPool ==
    { Anchor("match match_app", "Portal 2", "https://store.steampowered.com/app/620/"),
      Anchor("match match_app", " Portal ", "https://store.steampowered.com/app/400/"),
      Anchor("match match_app", "Portal Soundtrack",
             "https://store.steampowered.com/app/323170/"),
      Anchor("match match_app", "PORTAL 2 DEMO",
             "https://store.steampowered.com/app/621/"),
      Anchor("match match_app", "a b c f g h i j",
             "https://store.steampowered.com/app/3/"),
      Anchor("match match_app", "Portal 2",
             "https://store.steampowered.com/bundle/234/"),
      Anchor("match match_creator", "Portal 2",
             "https://store.steampowered.com/developer/valve"),
      Anchor("match match_app", NoneVal, "https://store.steampowered.com/app/1/"),
      Anchor("match match_app", "Portal Game of the Year",
             "https://store.steampowered.com/app/401/") }

SearchInputs ==
    {[game_name |-> g, response |-> r] :
        g \in Queries,
        r \in {Response("none", a) : a \in SeqsUpTo(AnchorPool, MaxMatches)}
              \cup {Response("RequestException", <<>>),
                    Response("Exception", <<>>)}}

InitSearch ==
    /\ pc = "search_steam_game"
    /\ q \in SearchInputs
    /\ out = <<>>
    /\ RunIdle

ApplySearch ==
    /\ pc = "search_steam_game"
    /\ pc' = "returned"
    /\ out' = [url |-> SearchSteamGame(q.game_name, q.response)]
    /\ UNCHANGED <<q, games, i, existing_games, current_results, results,
                   table, interrupted, detail_url, table0, log, searched,
                   fetched, owed_delay, flushes, failures>>

SpecSearch == InitSearch /\ [][ApplySearch]_vars

\* _calculate_similarity: pairs of strings over an alphabet with a space
SimAlphabet == {"a", "A", "b", " "}

InitSim ==
    /\ pc = "_calculate_similarity"
    /\ q \in [a : StringsUpTo(SimAlphabet, MaxLen),
              b : StringsUpTo(SimAlphabet, MaxLen)]
    /\ out = <<>>
    /\ RunIdle

ApplySim ==
    /\ pc = "_calculate_similarity"
    /\ pc' = "returned"
    /\ out' = [ab |-> CalculateSimilarity(q.a, q.b),
               ba |-> CalculateSimilarity(q.b, q.a),
               aa |-> CalculateSimilarity(q.a, q.a)]
    /\ UNCHANGED <<q, games, i, existing_games, current_results, results,
                   table, interrupted, detail_url, table0, log, searched,
                   fetched, owed_delay, flushes, failures>>

SpecSim == InitSim /\ [][ApplySim]_vars

-----------------------------------------------------------------------------
(* Properties of the name resolver *)

\* the display names with one of the markers, by the definition of the spec
Marked(name) ==
    /\ name # NoneVal
    /\ \E w \in {"soundtrack", "ost", "demo"} : Contains(StrLower(name), w)

MarkedAnchors == {a \in AnchorPool : Marked(a.name)}

\* the scores of the names of the pool, evaluated once
PoolScores ==
    [g \in Queries |->
        [a \in {x \in AnchorPool : x.name # NoneVal} |->
            CalculateSimilarity(SearchName(g), Strip(a.name))]]

\* the anchors of the pool that find_all keeps, evaluated once
PoolMatches == {a \in AnchorPool : GameMatches(<<a>>) # <<>>}

\* the candidates of the input: anchors of games, with their positions
Candidates == SelectSeq(q.response.anchors, LAMBDA a : a \in PoolMatches)

\* the positions of the eligible candidates: named, without marker
EligiblePos ==
    {k \in DOMAIN Candidates :
        Candidates[k].name # NoneVal /\ Candidates[k] \notin MarkedAnchors}

ScoreAt(k) == PoolScores[q.game_name][Candidates[k]]

\* the eligible candidate of the highest score, the first of them
WinnerPos ==
    CHOOSE k \in EligiblePos :
        \A j \in EligiblePos :
            /\ ~FracGt(ScoreAt(j), ScoreAt(k))
            /\ FracEq(ScoreAt(j), ScoreAt(k)) => k <= j

\* C8: the URL returned is never the href of an anchor whose display name
\* contains soundtrack, ost or demo in any case of letters.
C8_NoSoundtrack ==
    pc = "returned" =>
        \A k \in DOMAIN q.response.anchors :
            q.response.anchors[k] \in MarkedAnchors =>
                out.url # q.response.anchors[k].href

\* a marked candidate that scores 1.0 stands first, and a URL is returned
C8_Witness ==
    /\ pc = "returned"
    /\ out.url # NoneVal
    /\ Len(q.response.anchors) >= 2
    /\ q.response.anchors[1] \in MarkedAnchors
    /\ Contains(q.response.anchors[1].cls, "match_app")
    /\ FracEq(PoolScores[q.game_name][q.response.anchors[1]], Frac(1, 1))

\* C9: a URL is returned exactly when the response has no error, an eligible
\* candidate exists, the winner's score is strictly above 0.3 and the winner's
\* href holds the path of a detail page; the URL is then the winner's href.
C9_ThresholdAndPath ==
    pc = "returned" =>
        LET accepted ==
                /\ q.response.error = "none"
                /\ EligiblePos # {}
                /\ FracGt(ScoreAt(WinnerPos), Frac(3, 10))
                /\ Candidates[WinnerPos].href # NoneVal
                /\ Contains(Candidates[WinnerPos].href, "store.steampowered.com/app/")
        IN  IF accepted
            THEN out.url = Candidates[WinnerPos].href
            ELSE out.url = NoneVal

\* the best eligible score is exactly 0.3 and nothing is returned
C9_Witness ==
    /\ pc = "returned"
    /\ q.response.error = "none"
    /\ EligiblePos # {}
    /\ FracEq(ScoreAt(WinnerPos), Frac(3, 10))
    /\ Contains(Candidates[WinnerPos].href, "store.steampowered.com/app/")
    /\ out.url = NoneVal

\* C15: when some eligible candidate scores 0.3 or more, the loop's best
\* match is the eligible candidate of the highest score, the first of them in
\* the sequence when several share it, and best_score is that score; when
\* none does, nothing is returned.
C15_FirstOfHighest ==
    (pc = "returned" /\ q.response.error = "none") =>
        LET best == SearchBest(q.game_name, q.response)
        IN  IF EligiblePos # {} /\ ~FracLt(ScoreAt(WinnerPos), Threshold)
            THEN /\ best.idx = WinnerPos
                 /\ FracEq(best.score, ScoreAt(WinnerPos))
                 /\ \A j \in EligiblePos :
                        /\ ~FracGt(ScoreAt(j), best.score)
                        /\ j < best.idx => FracLt(ScoreAt(j), best.score)
            ELSE out.url = NoneVal

\* two eligible candidates share the highest score, the first has the href of
\* a detail page, the second has not, and the first one's href is returned
C15_Witness ==
    /\ pc = "returned"
    /\ Len(Candidates) >= 2
    /\ {1, 2} \subseteq EligiblePos
    /\ WinnerPos = 1
    /\ FracEq(ScoreAt(1), ScoreAt(2))
    /\ Candidates[1].href # Candidates[2].href
    /\ ~Contains(Candidates[2].href, AppPath)
    /\ out.url = Candidates[1].href

-----------------------------------------------------------------------------
(* Properties of the similarity scorer *)

\* the words of s in lower case: the maximal runs of characters that are no
\* whitespace
WordSet(s) ==
    LET l == StrLower(s)
    IN  {SubSeq(l, j, k) : <<j, k>> \in
            {p \in (1..Len(l)) \X (1..Len(l)) :
                /\ p[1] <= p[2]
                /\ \A m \in p[1]..p[2] : ~IsSpace(Ch(l, m))
                /\ p[1] = 1 \/ IsSpace(Ch(l, p[1] - 1))
                /\ p[2] = Len(l) \/ IsSpace(Ch(l, p[2] + 1))}}

HasWord(s) == \E k \in 1..Len(s) : ~IsSpace(Ch(s, k))

\* C10 as claimed: the score of a non-empty string with itself is 1.0
C10_SelfScoreOne ==
    (pc = "returned" /\ q.a # "") => FracEq(out.aa, Frac(1, 1))

\* C10: the score of a with itself is 1 when a holds a character that is no
\* whitespace and 0 when it holds none; the score is symmetric, lies in [0,1]
\* and is |intersection| / |union| of the word sets, 0 when both are empty.
C10_Jaccard ==
    pc = "returned" =>
        LET A == WordSet(q.a)
            B == WordSet(q.b)
        IN  /\ HasWord(q.a) => FracEq(out.aa, Frac(1, 1))
            /\ ~HasWord(q.a) => FracEq(out.aa, Frac(0, 1))
            /\ FracEq(out.ab, out.ba)
            /\ out.ab.d > 0 /\ 0 <= out.ab.n /\ out.ab.n <= out.ab.d
            /\ IF A \cup B = {}
               THEN FracEq(out.ab, Frac(0, 1))
               ELSE FracEq(out.ab, Frac(Cardinality(A \cap B),
                                        Cardinality(A \cup B)))

\* two different strings with spaces that share a word and differ in another
C10_Witness ==
    /\ pc = "returned"
    /\ q.a # q.b
    /\ Contains(q.a, " ") /\ Contains(q.b, " ")
    /\ FracGt(out.ab, Frac(0, 1))
    /\ FracLt(out.ab, Frac(1, 1))

-----------------------------------------------------------------------------
(* _format_date, applied to bounded date texts *)

\* the words of a date text: days, months of both languages (Feb, FEB, sen,
\* avg), a year, and a word that is none of them
DateTokens == {"16", "1st", "Feb", "FEB", "$=+", "@&}", "2012", "xx"}

\* the dates of the specification's examples (the third: 18 sen 2018)
ExampleDates == {"16 Feb, 2012", "Feb 2012", "garbage", "18 $=+ 2018"}

\* the texts: up to MaxTokens words, joined by a blank or by a comma and a
\* blank, as they are or followed by the year suffix or by a period
DateTexts ==
    {Join(w, sep) \o tail :
        w \in SeqsUpTo(DateTokens, MaxTokens),
        sep \in {" ", ", "},
        tail \in {"", " }.", ". "}}
    \cup ExampleDates

InitDate ==
    /\ pc = "_format_date"
    /\ q \in DateTexts
    /\ out = <<>>
    /\ RunIdle

ApplyDate ==
    /\ pc = "_format_date"
    /\ pc' = "returned"
    /\ out' = [date |-> FormatDate(q)]
    /\ UNCHANGED <<q, games, i, existing_games, current_results, results,
                   table, interrupted, detail_url, table0, log, searched,
                   fetched, owed_delay, flushes, failures>>

SpecDate == InitDate /\ [][ApplyDate]_vars

-----------------------------------------------------------------------------
(* Properties of the date normalizer *)

\* the words of a text once commas, periods and the year suffix are removed
DateParts(text) == Split(CleanDate(text))

\* the day, month and year words of a text of two or three words
DayOf(text) == IF Len(DateParts(text)) = 3 THEN DateParts(text)[1] ELSE "01"
MonthOf(text) ==
    IF Len(DateParts(text)) = 3 THEN DateParts(text)[2] ELSE DateParts(text)[1]
YearOf(text) ==
    IF Len(DateParts(text)) = 3 THEN DateParts(text)[3] ELSE DateParts(text)[2]

\* a text the normaliser cannot normalise: not two or three words, a month
\* word that is no key of the table in either spelling, or a day or a year
\* without a digit
Unrecognised(text) ==
    \/ Len(DateParts(text)) \notin {2, 3}
    \/ /\ ~InMonthMap(MonthOf(text))
       /\ ~InMonthMap(StrLower(MonthOf(text)))
    \/ OnlyDigits(DayOf(text)) = ""
    \/ OnlyDigits(YearOf(text)) = ""

\* C11: a text that cannot be normalised is returned unchanged, character
\* for character, its commas, periods and year suffix included.
C11_ReturnsInput ==
    (pc = "returned" /\ Unrecognised(q)) => out.date = q

\* a text of two or three words whose month word is a key of the table and
\* whose day and year have a digit
Recognised(text) ==
    /\ Len(DateParts(text)) \in {2, 3}
    /\ InMonthMap(MonthOf(text))
    /\ OnlyDigits(DayOf(text)) # ""
    /\ OnlyDigits(YearOf(text)) # ""

\* C12: a recognised text gives the digits of the day padded with zeros to
\* two, a period, the two-digit number of the month, a period and the digits
\* of the year; the day is 01 when the text has two words; a day of at most
\* two digits and a year of four give ten characters; the three dates of the
\* specification come out as it says.
C12_DayMonthYear ==
    /\ (pc = "returned" /\ Recognised(q)) =>
          /\ out.date = ZFill(OnlyDigits(DayOf(q)), 2) \o "."
                            \o MonthNum(MonthOf(q)) \o "."
                            \o OnlyDigits(YearOf(q))
          /\ Len(DateParts(q)) = 2 => SubSeq(out.date, 1, 3) = "01."
          /\ (Len(OnlyDigits(DayOf(q))) <= 2 /\ Len(OnlyDigits(YearOf(q))) = 4)
                => /\ Len(out.date) = 10
                   /\ Ch(out.date, 3) = "." /\ Ch(out.date, 6) = "."
    /\ (pc = "returned" /\ q = "16 Feb, 2012") => out.date = "16.02.2012"
    /\ (pc = "returned" /\ q = "Feb 2012") => out.date = "01.02.2012"
    /\ (pc = "returned" /\ q = "18 $=+ 2018") => out.date = "18.09.2018"

\* a one-digit day with letters, a comma after each word and the year suffix
C12_Witness ==
    /\ pc = "returned"
    /\ q = "1st, @&}, 2012 }."
    /\ out.date = "01.08.2012"

-----------------------------------------------------------------------------
(* _extract_russian_voiceover, applied to bounded language tables *)

\* the rows of a language table: the header, English, and Russian rows with
\* the voiceover checked, unchecked (no span, or a span without the mark),
\* and with two check columns only
LangRows ==
    { [cell |-> NoneVal, checks |-> <<>>],
      [cell |-> "English", checks |-> <<">", ">", ">">>],
      [cell |-> " ?{$$<![ ", checks |-> <<">", " > ", NoneVal>>],
      [cell |-> "?{$$<![ (RU)", checks |-> <<">", NoneVal, ">">>],
      [cell |-> "?{$$<![", checks |-> <<">", "x", ">">>],
      [cell |-> "?{$$<![", checks |-> <<">", ">">>] }

LangTables ==
    {[table |-> "present", rows |-> r] : r \in SeqsUpTo(LangRows, MaxRows)}
    \cup {[table |-> "absent", rows |-> <<>>], [table |-> Raised, rows |-> <<>>]}

InitVoice ==
    /\ pc = "_extract_russian_voiceover"
    /\ q \in LangTables
    /\ out = <<>>
    /\ RunIdle

ApplyVoice ==
    /\ pc = "_extract_russian_voiceover"
    /\ pc' = "returned"
    /\ out' = [voice |-> ExtractRussianVoiceover([lang |-> q])]
    /\ UNCHANGED <<q, games, i, existing_games, current_results, results,
                   table, interrupted, detail_url, table0, log, searched,
                   fetched, owed_delay, flushes, failures>>

SpecVoice == InitVoice /\ [][ApplyVoice]_vars

-----------------------------------------------------------------------------
(* Properties of the voiceover extractor *)

\* a language cell that names Russian, by the words of the specification
NamesRussian(row) ==
    row.cell # NoneVal /\ Contains(StrLower(row.cell), RussianWord)

\* the positions of the data rows (all rows but the first) that name Russian
RussianRows == {k \in DOMAIN q.rows : k >= 2 /\ NamesRussian(q.rows[k])}

\* the check columns of the first of them
RussianChecks == q.rows[CHOOSE k \in RussianRows : \A j \in RussianRows : k <= j].checks

\* the voiceover column holds the check mark
Voiced == RussianChecks[2] # NoneVal /\ Contains(RussianChecks[2], CheckMark)

\* C16 as stated: no table gives the not-found marker; a table without a
\* Russian data row gives a marker other than that one; a Russian row with
\* fewer than three check columns gives the not-found marker; otherwise the
\* mark in the second check column gives yes and its absence gives no.
C16_FourWay ==
    (pc = "returned" /\ q.table # Raised) =>
        /\ q.table = "absent" => out.voice = VoiceNotFound
        /\ (q.table = "present" /\ RussianRows = {}) =>
               out.voice \notin {VoiceNotFound, VoiceError}
        /\ (q.table = "present" /\ RussianRows # {}) =>
               IF Len(RussianChecks) < 3 THEN out.voice = VoiceNotFound
               ELSE IF Voiced THEN out.voice = VoiceYes
               ELSE out.voice = VoiceNo

\* C16: no table, or a table of fewer than two rows, gives the not-found
\* marker; a table with data rows none of which names Russian gives the
\* marker no, which differs from the not-found marker; the first Russian
\* data row with fewer than three check columns gives the not-found marker,
\* with the mark in its second check column yes, otherwise no; a failure
\* while reading gives the error marker.
C16_ThreeTokens ==
    /\ Cardinality({VoiceNotFound, VoiceNo, VoiceYes, VoiceError}) = 4
    /\ pc = "returned" =>
          IF q.table = Raised THEN out.voice = VoiceError
          ELSE IF q.table = "absent" \/ Len(q.rows) < 2
               THEN out.voice = VoiceNotFound
          ELSE IF RussianRows = {} THEN out.voice = VoiceNo
          ELSE IF Len(RussianChecks) < 3 THEN out.voice = VoiceNotFound
          ELSE IF Voiced THEN out.voice = VoiceYes
          ELSE out.voice = VoiceNo

\* an English row, then a Russian row with the interface and the subtitles
\* checked and the voiceover not: the answer is no
C16_Witness ==
    /\ pc = "returned"
    /\ Len(q.rows) = 3
    /\ q.rows[2].cell = "English"
    /\ RussianRows = {3}
    /\ RussianChecks = <<">", NoneVal, ">">>
    /\ out.voice = VoiceNo

====
